---- MODULE Spec2Model ----
(***************************************************************************)
(* camera-test: the capture / recognition pipeline of the two React        *)
(* components of the repository.                                           *)
(*   ModernCameraApp    src/unnamed/part_000 (Tesseract from the CDN,       *)
(*                      variant "cdn") and src/src/App.tsx 492-1095         *)
(*                      (Tesseract from the package, variant "pkg")         *)
(*   IndianPlateScanner src/src/App.tsx 37-462                              *)
(* A text is a sequence of one-character strings.  Every action is one     *)
(* event handler or one promise continuation together with the render and  *)
(* the effects React runs after it.                                        *)
(***************************************************************************)
EXTENDS Integers, Sequences, FiniteSets, TLC

\* ------------------------------------------------------------------ bounds
MaxOpens == 4       \* getUserMedia calls in the camera specification
OpensToStream == 2  \* getUserMedia calls where the camera is only a means
MaxScans == 2       \* scans pending at the same time
MaxCaptures == 2    \* photos taken
MaxShots == 3       \* photos taken in the specification of the photo collection
MaxFrames == 5      \* photos taken in the specification of the shutter
MaxWorkers == 2     \* createWorker calls
MaxReaders == 1     \* FileReader loads in progress at the same time
ScannerOpens == 1   \* getUserMedia calls of IndianPlateScanner
MaxLen == 3         \* characters of a text handed to a normalizer or formatter

\* ------------------------------------------------------------------- texts
Upper == {"A","B","C","D","E","F","G","H","I","J","K","L","M",
          "N","O","P","Q","R","S","T","U","V","W","X","Y","Z"}
Digit == {"0","1","2","3","4","5","6","7","8","9"}
Space == {" ", "\n"}

\* String.prototype.toUpperCase on one character
toUpperCase(c) ==
  CASE c = "a" -> "A" [] c = "b" -> "B" [] c = "c" -> "C" [] c = "d" -> "D"
    [] c = "e" -> "E" [] c = "f" -> "F" [] c = "g" -> "G" [] c = "h" -> "H"
    [] c = "i" -> "I" [] c = "j" -> "J" [] c = "k" -> "K" [] c = "l" -> "L"
    [] c = "m" -> "M" [] c = "n" -> "N" [] c = "o" -> "O" [] c = "p" -> "P"
    [] c = "q" -> "Q" [] c = "r" -> "R" [] c = "s" -> "S" [] c = "t" -> "T"
    [] c = "u" -> "U" [] c = "v" -> "V" [] c = "w" -> "W" [] c = "x" -> "X"
    [] c = "y" -> "Y" [] c = "z" -> "Z" [] OTHER -> c

\* String.prototype.toUpperCase on a text
UpperText(s) == [i \in 1..Len(s) |-> toUpperCase(s[i])]

RECURSIVE Keep(_, _)
\* s.replace(/[^...]/g, '') : the characters of s that are in the class
Keep(s, class) ==
  IF s = <<>> THEN <<>>
  ELSE IF Head(s) \in class THEN <<Head(s)>> \o Keep(Tail(s), class)
       ELSE Keep(Tail(s), class)

\* s.replace(/x/, 'y'): without the g flag only the first x is replaced
SubstFirst(s, x, y) ==
  [i \in 1..Len(s) |-> IF s[i] = x /\ (\A j \in 1..(i - 1) : s[j] # x) THEN y ELSE s[i]]

\* s.replace(/x/g, 'y')
Subst(s, x, y) == [i \in 1..Len(s) |-> IF s[i] = x THEN y ELSE s[i]]

RECURSIVE Collapse(_)
\* s.replace(/\s+/g, ' ')
Collapse(s) ==
  IF s = <<>> THEN <<>>
  ELSE IF Head(s) \in Space
       THEN IF Len(s) > 1 /\ s[2] \in Space THEN Collapse(Tail(s))
            ELSE <<" ">> \o Collapse(Tail(s))
       ELSE <<Head(s)>> \o Collapse(Tail(s))

RECURSIVE TrimLeft(_)
TrimLeft(s) == IF s # <<>> /\ Head(s) \in Space THEN TrimLeft(Tail(s)) ELSE s

RECURSIVE TrimRight(_)
TrimRight(s) ==
  IF s # <<>> /\ s[Len(s)] \in Space THEN TrimRight(SubSeq(s, 1, Len(s) - 1)) ELSE s

\* String.prototype.trim
Trim(s) == TrimRight(TrimLeft(s))

RECURSIVE Join(_)
\* parts.join(' ')
Join(parts) ==
  IF parts = <<>> THEN <<>>
  ELSE IF Len(parts) = 1 THEN parts[1]
       ELSE parts[1] \o <<" ">> \o Join(Tail(parts))

\* s matches ^c1{n1}c2{n2}...$ for the list shape of <<class, length>> pairs
RECURSIVE MatchShape(_, _)
MatchShape(s, shape) ==
  IF shape = <<>> THEN s = <<>>
  ELSE LET class == shape[1][1]
           n == shape[1][2]
       IN /\ Len(s) >= n
          /\ \A i \in 1..n : s[i] \in class
          /\ MatchShape(SubSeq(s, n + 1, Len(s)), Tail(shape))

\* the cut of s into pieces of the lengths of shape
RECURSIVE CutShape(_, _)
CutShape(s, shape) ==
  IF shape = <<>> THEN <<>>
  ELSE <<SubSeq(s, 1, shape[1][2])>>
         \o CutShape(SubSeq(s, shape[1][2] + 1, Len(s)), Tail(shape))

\* The result of a formatter that found no pattern (null in the source).
NoMatch == <<"<null>">>

\* s.replace(/\s+/g, '')
RemoveSpaces(s) == Keep(s, {s[i] : i \in 1..Len(s)} \ Space)

\* A strict normalizer without .replace(/[^A-Z0-9]/g, '').
cleanedStrictUnstripped(rawText) ==
  Subst(Subst(Subst(Subst(
    UpperText(RemoveSpaces(rawText)),
    "O", "0"), "I", "1"), "Z", "2"), "S", "5")

\* `cleaned` of validateIndianPlate (both ModernCameraApp variants): the strict
\* normalizer
cleanedStrict(rawText) ==
  Subst(Subst(Subst(Subst(
    Keep(UpperText(RemoveSpaces(rawText)), Upper \cup Digit),
    "O", "0"), "I", "1"), "Z", "2"), "S", "5")

\* A whitespace-preserving normalizer that collapses the white space before it
\* removes the other characters.
cleanedSpacedCollapsingFirst(text) ==
  Trim(Subst(Subst(
    Keep(Collapse(UpperText(text)), Upper \cup Digit \cup Space),
    "O", "0"), "I", "1"))

\* `cleaned` of formatIndianPlate and `text` of processImage: the
\* whitespace-preserving normalizer
cleanedSpaced(text) ==
  Trim(Subst(Subst(
    Collapse(Keep(UpperText(text), Upper \cup Digit \cup Space)),
    "O", "0"), "I", "1"))

\* A pattern is written as a list of items <<class, min, max, captured>>; Expand
\* lists the shapes it admits, longest repetitions first as the regex engine
\* tries them.
RECURSIVE Expand(_)
Expand(items) ==
  IF items = <<>> THEN << <<>> >>
  ELSE LET it == items[1]
           rest == Expand(Tail(items))
           RECURSIVE Down(_)
           Down(n) ==
             IF n < it[2] THEN <<>>
             ELSE [j \in 1..Len(rest) |-> << <<it[1], n, it[4]>> >> \o rest[j]]
                    \o Down(n - 1)
       IN Down(it[3])

\* the first shape of the pattern that s matches, 0 if none
FirstShape(s, pattern) ==
  LET hits == {j \in 1..Len(pattern) : MatchShape(s, pattern[j])}
  IN IF hits = {} THEN 0 ELSE CHOOSE j \in hits : \A k \in hits : j <= k

\* the first pattern of the list that s matches, 0 if none
FirstMatch(s, patterns) ==
  LET hits == {j \in 1..Len(patterns) : FirstShape(s, patterns[j]) # 0}
  IN IF hits = {} THEN 0 ELSE CHOOSE j \in hits : \A k \in hits : j <= k

\* match.slice(1): the captured groups of s under a shape
Groups(s, shape) ==
  LET cut == CutShape(s, shape)
      RECURSIVE Sel(_)
      Sel(i) == IF i > Len(shape) THEN <<>>
                ELSE IF shape[i][3] THEN <<cut[i]>> \o Sel(i + 1) ELSE Sel(i + 1)
  IN Sel(1)

\* platePatterns of validateIndianPlate, variant "cdn"
platePatterns ==
  << Expand(<< <<Upper, 2, 2, FALSE>>, <<Digit, 2, 2, FALSE>>,
               <<Upper, 1, 2, FALSE>>, <<Digit, 4, 4, FALSE>> >>),
     Expand(<< <<Upper, 2, 2, FALSE>>, <<Digit, 2, 2, FALSE>>,
               <<Digit, 4, 4, FALSE>> >>),
     Expand(<< <<Upper, 3, 3, FALSE>>, <<Digit, 4, 4, FALSE>> >>) >>

\* String.prototype.substring(from, to), 0-based, to exclusive
substring(s, from, to) == SubSeq(s, from + 1, to)

\* validateIndianPlate of variant "cdn"
validateIndianPlateCdn(rawText) ==
  LET cleaned == cleanedStrict(rawText)
  IN IF FirstMatch(cleaned, platePatterns) = 0 THEN NoMatch
     ELSE IF Len(cleaned) >= 8
          THEN Join(<< substring(cleaned, 0, 2), substring(cleaned, 2, 4),
                       substring(cleaned, 4, Len(cleaned) - 4),
                       substring(cleaned, Len(cleaned) - 4, Len(cleaned)) >>)
          ELSE IF Len(cleaned) = 7
               THEN Join(<< substring(cleaned, 0, 2),
                            substring(cleaned, 2, Len(cleaned)) >>)
               ELSE cleaned

Opt(class) == <<class, 0, 1, FALSE>>
Lit(c) == <<{c}, 1, 1, FALSE>>

\* plateRegexList of validateIndianPlate, variant "pkg"
plateRegexList ==
  << Expand(<< <<Upper, 2, 2, FALSE>>, Opt(Space), <<Digit, 1, 2, FALSE>>,
               Opt(Space), <<Upper, 1, 2, FALSE>>, Opt(Space),
               <<Digit, 4, 4, FALSE>> >>),
     Expand(<< Lit("I"), Lit("N"), Lit("D"), Opt(Space), <<Upper, 2, 2, FALSE>>,
               Opt(Space), <<Digit, 1, 2, FALSE>>, Opt(Space),
               <<Upper, 1, 2, FALSE>>, Opt(Space), <<Digit, 4, 4, FALSE>> >>),
     Expand(<< Lit("I"), Lit("N"), Opt({"D"}), <<Upper, 2, 2, FALSE>>,
               <<Digit, 2, 2, FALSE>>, <<Digit, 4, 6, FALSE>> >>),
     Expand(<< <<Upper, 2, 2, FALSE>>, <<Digit, 2, 2, FALSE>>,
               <<Digit, 4, 6, FALSE>> >>),
     Expand(<< Lit("I"), Lit("N"), Lit("D"), Opt(Space), <<Upper, 2, 2, FALSE>>,
               Opt(Space), <<Digit, 2, 2, FALSE>>, Opt(Space),
               <<Digit, 4, 6, FALSE>> >>),
     Expand(<< <<Upper, 2, 2, FALSE>>, <<Digit, 2, 2, FALSE>>,
               <<Digit, 4, 6, FALSE>> >>) >>

RECURSIVE GlobalParts(_)
\* cleaned.match(/[A-Z]{2}|\d{1,2}|[A-Z]{1,2}|\d{4,6}/g): at each position the
\* first alternative that matches, scanning left to right
GlobalParts(s) ==
  IF s = <<>> THEN <<>>
  ELSE IF Len(s) >= 2 /\ s[1] \in Upper /\ s[2] \in Upper
       THEN <<SubSeq(s, 1, 2)>> \o GlobalParts(SubSeq(s, 3, Len(s)))
       ELSE IF s[1] \in Digit
            THEN IF Len(s) >= 2 /\ s[2] \in Digit
                 THEN <<SubSeq(s, 1, 2)>> \o GlobalParts(SubSeq(s, 3, Len(s)))
                 ELSE <<SubSeq(s, 1, 1)>> \o GlobalParts(Tail(s))
            ELSE IF s[1] \in Upper
                 THEN <<SubSeq(s, 1, 1)>> \o GlobalParts(Tail(s))
                 ELSE GlobalParts(Tail(s))

\* validateIndianPlate of variant "pkg"
validateIndianPlatePkg(rawText) ==
  LET cleaned == cleanedStrict(rawText)
  IN IF FirstMatch(cleaned, plateRegexList) = 0 THEN NoMatch
     ELSE IF GlobalParts(cleaned) = <<>> THEN NoMatch
          ELSE Join(GlobalParts(cleaned))

\* patterns of formatIndianPlate (IndianPlateScanner)
patterns ==
  << Expand(<< <<Upper, 2, 2, TRUE>>, <<Digit, 2, 2, TRUE>>,
               <<Upper, 1, 2, TRUE>>, <<Digit, 4, 4, TRUE>> >>),
     Expand(<< <<Upper, 2, 2, TRUE>>, <<Digit, 1, 2, TRUE>>,
               <<Upper, 1, 3, TRUE>>, <<Digit, 3, 4, TRUE>> >>),
     Expand(<< <<Upper, 2, 2, TRUE>>, <<Digit, 2, 2, TRUE>>,
               <<Upper, 2, 4, TRUE>> >>),
     Expand(<< <<Upper, 2, 2, TRUE>>, <<Digit, 1, 2, TRUE>>,
               <<Upper, 1, 1, TRUE>>, <<Digit, 3, 3, TRUE>> >>),
     Expand(<< Lit("I"), Lit("N"), Lit("D"), <<Upper, 2, 2, TRUE>>,
               <<Digit, 2, 2, TRUE>>, <<Upper, 2, 2, TRUE>>,
               <<Digit, 4, 4, TRUE>> >>) >>

\* formatIndianPlate (IndianPlateScanner)
formatIndianPlate(text) ==
  LET compact == RemoveSpaces(cleanedSpaced(text))
      p == FirstMatch(compact, patterns)
  IN IF p = 0 THEN NoMatch
     ELSE Join(Groups(compact, patterns[p][FirstShape(compact, patterns[p])]))

\* ------------------------------------------------------------------- state
VARIABLES
  variant,            \* ModernCameraApp: "cdn" (part_000) or "pkg" (App.tsx); "scanner" for IndianPlateScanner
  mounted,            \* the component is mounted
  isStreaming, error, cameraFacing, isCapturing,
  streamRef,          \* streamRef.current: a stream (its request's number) or 0 for null
  videoSrc,           \* srcObject of the mounted <video> element, 0 if none or no element
  req,                \* the getUserMedia calls made so far; a granted call is its stream
  capturedPhotos, selectedPhotoIndex, showGallery, showFullscreen,
  isScanning, extractedText, showScanResult,
  tesseract,          \* the script load: "loading", "loaded" or "failed"
  scans,              \* the scanNumberPlate / processImage calls that have not returned
  now,                \* Date.now(): the reading of the wall clock
  timers,             \* pending setTimeout(() => setIsCapturing(false), 200) callbacks
  frames,             \* video frames drawn to the canvas so far (a frame is its number)
  capturedImage, isCameraOpen, isProcessing,
  workerRef,          \* workerRef.current: a worker (its number) or 0 for null
  workers,            \* number of createWorker calls made
  readers,            \* FileReader loads in progress (the image each one delivers)
  rawText,            \* the text a normalizer or formatter is called with
  cleaned,            \* `cleaned` / `text`: what the normalizer made of rawText
  plate               \* what the formatter returned for rawText

cameraVars == <<isStreaming, cameraFacing, streamRef, videoSrc, req>>
galleryVars == <<capturedPhotos, selectedPhotoIndex, showGallery, showFullscreen, isCapturing,
                 now, timers, frames>>
scanVars == <<isScanning, extractedText, showScanResult, scans>>
scannerVars == <<capturedImage, isCameraOpen, isProcessing, workerRef, workers, readers>>
textVars == <<rawText, cleaned, plate>>
vars == <<variant, mounted, error, tesseract, cameraVars, galleryVars, scanVars, scannerVars,
          textVars>>

\* a local of a function that has not run yet
Unset == <<"<unset>">>

\* photo.extractedText of a photo that was never scanned (undefined in the source)
Absent == <<"<undefined>">>

\* what the OCR engine may answer
OcrTexts == { <<"H","R","2","6","A","B","1","2","3","4">>,
              <<"K","A","0","1">>,
              <<" ">> }

\* A tesseractLoaded that initTesseract sets once the load has settled, failed
\* or not.
tesseractSettled == tesseract # "loading"

tesseractLoaded == tesseract = "loaded"

Live(reqs) == {i \in 1..Len(reqs) : reqs[i].status = "live"}
Pending(reqs) == {i \in 1..Len(reqs) : reqs[i].status = "pending"}
\* streams handed out by getUserMedia, and streams whose tracks were stopped
Acquired(reqs) == {i \in 1..Len(reqs) : reqs[i].status \in {"live", "stopped"}}
Released(reqs) == {i \in 1..Len(reqs) : reqs[i].status = "stopped"}

\* stream.getTracks().forEach(track => track.stop())
StopTracks(reqs, stream) ==
  IF stream # 0 /\ reqs[stream].status = "live"
  THEN [reqs EXCEPT ![stream].status = "stopped"]
  ELSE reqs

\* The <video> element is rendered only while error is empty: an element that
\* stays mounted keeps its srcObject, a newly mounted one has none.
Render(errorBefore, errorAfter, src) ==
  IF errorBefore = "" /\ errorAfter = "" THEN src ELSE 0

OtherFacing(f) == IF f = "user" THEN "environment" ELSE "user"

\* ------------------------------------------- ModernCameraApp: the camera
\* startCamera up to its await: the held stream is stopped (the reference is
\* kept) and getUserMedia is called with the facing mode of the last render.
StartCameraCall(reqs, stream, facing, origin, idle) ==
  Append(StopTracks(reqs, stream),
         [facing |-> facing, origin |-> origin, idle |-> idle, status |-> "pending"])

\* the capture button while not streaming, or "Try Again" of the error view
StartCamera(max) ==
  /\ mounted /\ variant # "scanner"
  /\ ~(showGallery \/ showFullscreen)
  /\ error # "" \/ (~isStreaming /\ ~isCapturing)
  /\ Len(req) < max
  /\ error' = ""
  /\ req' = StartCameraCall(req, streamRef, cameraFacing, "click", ~isStreaming)
  /\ videoSrc' = Render(error, "", videoSrc)
  /\ UNCHANGED <<variant, textVars, mounted, tesseract, isStreaming, cameraFacing, streamRef,
                 galleryVars, scanVars, scannerVars>>

\* getUserMedia resolves: the rest of startCamera's try block, then the effect
\* on [cameraFacing, startCamera, isStreaming], which calls startCamera again
\* when isStreaming has just become true.
GetUserMediaGranted(i, max) ==
  /\ variant # "scanner"
  /\ i \in Pending(req)
  /\ LET granted == [req EXCEPT ![i].status = "live"]
         ref == i
         src == IF error = "" THEN i ELSE videoSrc
     IN IF ~mounted
        THEN /\ req' = granted
             /\ streamRef' = ref
             /\ UNCHANGED <<isStreaming, error, videoSrc>>
        ELSE IF isStreaming
             THEN /\ req' = granted
                  /\ streamRef' = ref
                  /\ videoSrc' = src
                  /\ UNCHANGED <<isStreaming, error>>
             ELSE /\ Len(req) < max
                  /\ isStreaming' = TRUE
                  /\ streamRef' = ref
                  /\ error' = ""
                  /\ req' = StartCameraCall(granted, ref, cameraFacing, "restart", FALSE)
                  /\ videoSrc' = Render(error, "", src)
  /\ UNCHANGED <<variant, textVars, mounted, tesseract, cameraFacing, galleryVars, scanVars, scannerVars>>

\* A catch block that also falls back to the facing mode used before a failed
\* switch.
GetUserMediaDeniedReverting(i) ==
  /\ variant # "scanner"
  /\ i \in Pending(req)
  /\ req' = [req EXCEPT ![i].status = "denied"]
  /\ IF mounted
     THEN /\ error' = "Failed to access camera"
          /\ isStreaming' = FALSE
          /\ cameraFacing' = IF req[i].origin = "switch"
                             THEN OtherFacing(req[i].facing) ELSE cameraFacing
          /\ videoSrc' = 0
     ELSE UNCHANGED <<error, isStreaming, cameraFacing, videoSrc>>
  /\ UNCHANGED <<variant, textVars, mounted, tesseract, streamRef, galleryVars, scanVars, scannerVars>>

\* getUserMedia rejects: startCamera's catch block
GetUserMediaDenied(i) ==
  /\ variant # "scanner"
  /\ i \in Pending(req)
  /\ req' = [req EXCEPT ![i].status = "denied"]
  /\ IF mounted
     THEN /\ error' = "Failed to access camera"
          /\ isStreaming' = FALSE
          /\ videoSrc' = 0
     ELSE UNCHANGED <<error, isStreaming, videoSrc>>
  /\ UNCHANGED <<variant, textVars, mounted, tesseract, cameraFacing, streamRef,
                 galleryVars, scanVars, scannerVars>>

\* switchCamera (its button is disabled unless isStreaming), then the effect on
\* [cameraFacing, startCamera, isStreaming]
SwitchCamera ==
  /\ mounted /\ variant # "scanner"
  /\ ~(showGallery \/ showFullscreen)
  /\ isStreaming
  /\ Len(req) < MaxOpens
  /\ cameraFacing' = OtherFacing(cameraFacing)
  /\ error' = ""
  /\ req' = StartCameraCall(req, streamRef, cameraFacing', "switch", FALSE)
  /\ videoSrc' = Render(error, "", videoSrc)
  /\ UNCHANGED <<variant, textVars, mounted, tesseract, isStreaming, streamRef,
                 galleryVars, scanVars, scannerVars>>

\* A stopCamera that stops the tracks and forgets to clear streamRef.current.
stopCameraKeepingRef(s) ==
  [streamRef |-> s.streamRef, isStreaming |-> FALSE, req |-> StopTracks(s.req, s.streamRef)]

\* stopCamera as a function of the session: [streamRef, isStreaming, req]
stopCamera(s) ==
  [streamRef |-> 0, isStreaming |-> FALSE, req |-> StopTracks(s.req, s.streamRef)]

Session == [streamRef |-> streamRef, isStreaming |-> isStreaming, req |-> req]

\* the stop button (shown while streaming with no photo taken)
StopCamera ==
  /\ mounted /\ variant # "scanner"
  /\ ~(showGallery \/ showFullscreen)
  /\ isStreaming /\ capturedPhotos = <<>>
  /\ streamRef' = stopCamera(Session).streamRef
  /\ isStreaming' = stopCamera(Session).isStreaming
  /\ req' = stopCamera(Session).req
  /\ UNCHANGED <<variant, textVars, mounted, error, tesseract, cameraFacing, videoSrc,
                 galleryVars, scanVars, scannerVars>>

\* unmount: the cleanup of the effect on [checkPermissions, stopCamera]
Unmount ==
  /\ mounted /\ variant # "scanner"
  /\ mounted' = FALSE
  /\ streamRef' = stopCamera(Session).streamRef
  /\ isStreaming' = stopCamera(Session).isStreaming
  /\ req' = stopCamera(Session).req
  /\ videoSrc' = 0
  /\ UNCHANGED <<variant, textVars, error, tesseract, cameraFacing, galleryVars, scanVars, scannerVars>>

\* ------------------------------ ModernCameraApp: photos and the gallery
\* which layer of the page receives the clicks
Screen ==
  IF showFullscreen /\ capturedPhotos # <<>> THEN "fullscreen"
  ELSE IF showGallery THEN "gallery" ELSE "main"

\* the effect on [selectedPhotoIndex]: a changed index hides the scan result
ShowAfter(indexBefore, indexAfter, show) ==
  IF indexAfter # indexBefore THEN FALSE ELSE show
TextAfter(indexBefore, indexAfter, text) ==
  IF indexAfter # indexBefore THEN <<>> ELSE text

\* what capturePhoto reads and writes.  videoRef.current and canvasRef.current
\* are set exactly while the error view is not shown.
Shutter ==
  [isStreaming |-> isStreaming, video |-> error = "", isCapturing |-> isCapturing,
   capturedPhotos |-> capturedPhotos, now |-> now, timers |-> timers, frames |-> frames]

\* A capturePhoto that does not look at isStreaming.
capturePhotoUnguarded(s, ctx) ==
  IF ~s.video THEN s
  ELSE IF ~ctx THEN [s EXCEPT !.isCapturing = TRUE]
  ELSE [s EXCEPT !.isCapturing = TRUE,
                 !.capturedPhotos =
                    <<[id |-> s.now, dataUrl |-> s.frames + 1, extractedText |-> Absent]>> \o @,
                 !.frames = @ + 1,
                 !.timers = @ + 1]

\* A capturePhoto that puts the new photo behind the others:
\* setCapturedPhotos(prev => [...prev, newPhoto]).
capturePhotoAppending(s, ctx) ==
  IF ~s.video \/ ~s.isStreaming THEN s
  ELSE IF ~ctx THEN [s EXCEPT !.isCapturing = TRUE]
  ELSE [s EXCEPT !.isCapturing = TRUE,
                 !.capturedPhotos =
                    @ \o <<[id |-> s.now, dataUrl |-> s.frames + 1, extractedText |-> Absent]>>,
                 !.frames = @ + 1,
                 !.timers = @ + 1]

\* capturePhoto as a function of Shutter; ctx is whether canvas.getContext('2d')
\* gave a context.  The photo's id is the clock reading, its dataUrl the frame.
capturePhoto(s, ctx) ==
  IF ~s.video \/ ~s.isStreaming THEN s
  ELSE IF ~ctx THEN [s EXCEPT !.isCapturing = TRUE]
  ELSE [s EXCEPT !.isCapturing = TRUE,
                 !.capturedPhotos =
                    <<[id |-> s.now, dataUrl |-> s.frames + 1, extractedText |-> Absent]>> \o @,
                 !.frames = @ + 1,
                 !.timers = @ + 1]

\* the capture button while isStreaming (it is disabled while isCapturing)
CapturePhoto(ctx, max) ==
  /\ mounted /\ variant # "scanner"
  /\ Screen = "main"
  /\ ~isCapturing /\ isStreaming
  /\ frames < max
  /\ isCapturing' = capturePhoto(Shutter, ctx).isCapturing
  /\ capturedPhotos' = capturePhoto(Shutter, ctx).capturedPhotos
  /\ timers' = capturePhoto(Shutter, ctx).timers
  /\ frames' = capturePhoto(Shutter, ctx).frames
  /\ UNCHANGED <<variant, textVars, mounted, error, tesseract, cameraVars, selectedPhotoIndex,
                 showGallery, showFullscreen, now, scanVars, scannerVars>>

\* the callback of setTimeout(() => setIsCapturing(false), 200).  The clock is
\* read again only at the next capture, at least 200 ms later: Date.now() has
\* usually advanced by then, but it is the wall clock and is not monotonic (the
\* system clock can be set back), so any reading up to a later one is possible.
CaptureTimeout ==
  /\ variant # "scanner"
  /\ timers > 0
  /\ timers' = timers - 1
  /\ isCapturing' = IF mounted THEN FALSE ELSE isCapturing
  /\ \E t \in 1..(now + 1) : now' = t
  /\ UNCHANGED <<variant, textVars, mounted, error, tesseract, cameraVars, capturedPhotos,
                 selectedPhotoIndex, showGallery, showFullscreen, frames, scanVars,
                 scannerVars>>

\* the gallery button of the main screen
OpenGallery ==
  /\ mounted /\ variant # "scanner"
  /\ Screen = "main" /\ capturedPhotos # <<>>
  /\ showGallery' = TRUE
  /\ UNCHANGED <<variant, textVars, mounted, error, tesseract, cameraVars, capturedPhotos,
                 selectedPhotoIndex, showFullscreen, isCapturing, now, timers, frames, scanVars, scannerVars>>

CloseGallery ==
  /\ mounted /\ variant # "scanner"
  /\ Screen = "gallery"
  /\ showGallery' = FALSE
  /\ UNCHANGED <<variant, textVars, mounted, error, tesseract, cameraVars, capturedPhotos,
                 selectedPhotoIndex, showFullscreen, isCapturing, now, timers, frames, scanVars, scannerVars>>

\* openFullscreen(index): a click on a photo of the gallery
OpenFullscreen(index) ==
  /\ mounted /\ variant # "scanner"
  /\ Screen = "gallery"
  /\ index \in 0..(Len(capturedPhotos) - 1)
  /\ selectedPhotoIndex' = index
  /\ showFullscreen' = TRUE
  /\ showScanResult' = FALSE
  /\ extractedText' = TextAfter(selectedPhotoIndex, index, extractedText)
  /\ UNCHANGED <<variant, textVars, mounted, error, tesseract, cameraVars, capturedPhotos,
                 showGallery, isCapturing, now, timers, frames, isScanning, scans, scannerVars>>

CloseFullscreen ==
  /\ mounted /\ variant # "scanner"
  /\ Screen = "fullscreen"
  /\ showFullscreen' = FALSE
  /\ UNCHANGED <<variant, textVars, mounted, error, tesseract, cameraVars, capturedPhotos,
                 selectedPhotoIndex, showGallery, isCapturing, now, timers, frames, scanVars, scannerVars>>

\* previousPhoto / nextPhoto (the arrows are shown with more than one photo)
PreviousIndex(prev, length) == IF prev > 0 THEN prev - 1 ELSE length - 1
NextIndex(prev, length) == IF prev < length - 1 THEN prev + 1 ELSE 0

Navigate(index) ==
  /\ mounted /\ variant # "scanner"
  /\ Screen = "fullscreen" /\ Len(capturedPhotos) > 1
  /\ selectedPhotoIndex' = index
  /\ showScanResult' = FALSE
  /\ extractedText' = TextAfter(selectedPhotoIndex, index, extractedText)
  /\ UNCHANGED <<variant, textVars, mounted, error, tesseract, cameraVars, capturedPhotos,
                 showGallery, showFullscreen, isCapturing, now, timers, frames, isScanning, scans, scannerVars>>

PreviousPhoto == Navigate(PreviousIndex(selectedPhotoIndex, Len(capturedPhotos)))
NextPhoto == Navigate(NextIndex(selectedPhotoIndex, Len(capturedPhotos)))

\* History only: the pending scans of a deleted photo, or of a session that was
\* reset, are marked; nothing in the program reads the mark.
Discard(ss, images) ==
  [k \in 1..Len(ss) |-> IF ss[k].image \in images
                        THEN [ss[k] EXCEPT !.discarded = TRUE] ELSE ss[k]]

\* prev.filter(photo => photo.id !== photoId)
Without(photos, photoId) == SelectSeq(photos, LAMBDA photo : photo.id # photoId)

\* deletePhoto(capturedPhotos[selectedPhotoIndex].id): the bin of the
\* fullscreen viewer
DeletePhoto ==
  /\ mounted /\ variant # "scanner"
  /\ Screen = "fullscreen"
  /\ selectedPhotoIndex < Len(capturedPhotos)
  /\ LET newPhotos == Without(capturedPhotos, capturedPhotos[selectedPhotoIndex + 1].id)
         index == IF selectedPhotoIndex >= Len(newPhotos) /\ Len(newPhotos) > 0
                  THEN Len(newPhotos) - 1 ELSE selectedPhotoIndex
         empty == Len(newPhotos) = 0
     IN /\ capturedPhotos' = newPhotos
        /\ selectedPhotoIndex' = index
        /\ showGallery' = IF empty THEN FALSE ELSE showGallery
        /\ showFullscreen' = IF empty THEN FALSE ELSE showFullscreen
        /\ showScanResult' =
             ShowAfter(selectedPhotoIndex, index, IF empty THEN FALSE ELSE showScanResult)
        /\ extractedText' = TextAfter(selectedPhotoIndex, index, extractedText)
  /\ scans' = Discard(scans, {capturedPhotos[selectedPhotoIndex + 1].dataUrl})
  /\ UNCHANGED <<variant, textVars, mounted, error, tesseract, cameraVars, isCapturing, now, timers, frames,
                 isScanning, scannerVars>>

\* the X of the scan-result panel
CloseScanResult ==
  /\ mounted /\ variant # "scanner"
  /\ Screen = "main" /\ showScanResult
  /\ showScanResult' = FALSE
  /\ UNCHANGED <<variant, textVars, mounted, error, tesseract, cameraVars, galleryVars,
                 isScanning, extractedText, scans, scannerVars>>

\* ------------------------------------------- ModernCameraApp: the scan
\* the script load of the "cdn" variant settles (initTesseract)
TesseractLoad(ok) ==
  /\ mounted /\ variant = "cdn"
  /\ tesseract = "loading"
  /\ tesseract' = IF ok THEN "loaded" ELSE "failed"
  /\ error' = IF ok THEN error ELSE "Failed to load OCR engine"
  /\ videoSrc' = IF ok THEN videoSrc ELSE 0
  /\ UNCHANGED <<variant, textVars, mounted, isStreaming, cameraFacing, streamRef, req,
                 galleryVars, scanVars, scannerVars>>

\* the calls still pending once call k has returned
Returned(ss, k) == [j \in 1..(Len(ss) - 1) |-> IF j < k THEN ss[j] ELSE ss[j + 1]]
Recognizing(ss) == {k \in 1..Len(ss) : ss[k].stage = "recognize"}

\* scanNumberPlate up to its first await (the scan buttons are disabled while
\* isScanning, and in the "cdn" variant until Tesseract is loaded)
ScanNumberPlate ==
  /\ mounted /\ variant # "scanner"
  /\ Screen \in {"main", "fullscreen"}
  /\ ~isScanning
  /\ variant = "cdn" => tesseractLoaded
  /\ ~(capturedPhotos = <<>> \/ selectedPhotoIndex >= Len(capturedPhotos))
  /\ Len(scans) < MaxScans
  /\ IF variant = "cdn" /\ tesseract # "loaded"
     THEN \* performTesseractOCR throws at once: window.Tesseract is not there
          /\ error' = "Failed to scan number plate"
          /\ videoSrc' = 0
          /\ UNCHANGED <<isScanning, scans>>
     ELSE /\ isScanning' = TRUE
          /\ error' = ""
          /\ videoSrc' = Render(error, "", videoSrc)
          /\ scans' = Append(scans, [image |-> capturedPhotos[selectedPhotoIndex + 1].dataUrl,
                                     index |-> selectedPhotoIndex, stage |-> "load",
                                     input |-> "none", worker |-> 0, discarded |-> FALSE])
  /\ UNCHANGED <<variant, textVars, mounted, tesseract, isStreaming, cameraFacing, streamRef, req,
                 galleryVars, extractedText, showScanResult, scannerVars>>

\* the catch and finally blocks of scanNumberPlate
ScanFails(k) ==
  /\ scans' = Returned(scans, k)
  /\ IF mounted
     THEN /\ error' = "Failed to scan number plate"
          /\ videoSrc' = 0
          /\ isScanning' = FALSE
     ELSE UNCHANGED <<error, videoSrc, isScanning>>
  /\ UNCHANGED <<capturedPhotos, extractedText, showScanResult>>

\* what scanNumberPlate hands to Tesseract.recognize: the "cdn" variant draws
\* the image on a canvas and runs preprocessImageForOCR on it, the "pkg"
\* variant passes the decoded image itself
RecognizeInput == IF variant = "cdn" THEN "preprocessed" ELSE "raw"

\* the image of the photo is decoded (img.onload / img.onerror; in the "cdn"
\* variant a canvas without a 2d context also ends the scan)
ImageLoaded(k, ok) ==
  /\ variant # "scanner"
  /\ k \in 1..Len(scans) /\ scans[k].stage = "load"
  /\ IF ok
     THEN /\ scans' = [scans EXCEPT ![k].stage = "recognize", ![k].input = RecognizeInput]
          /\ UNCHANGED <<error, videoSrc, isScanning, capturedPhotos, extractedText,
                         showScanResult>>
     ELSE ScanFails(k)
  /\ UNCHANGED <<variant, textVars, mounted, tesseract, isStreaming, cameraFacing, streamRef, req,
                 selectedPhotoIndex, showGallery, showFullscreen, isCapturing, now, timers, frames,
                 scannerVars>>

\* prev.map((p, index) => index === selectedPhotoIndex ? {...p, extractedText} : p)
\* with the selectedPhotoIndex of the render scanNumberPlate was called in
WriteResult(photos, index, text) ==
  [j \in 1..Len(photos) |->
     IF j - 1 = index THEN [photos[j] EXCEPT !.extractedText = text] ELSE photos[j]]

\* formattedPlate of scanNumberPlate: NoMatch where the scan ends in an error
formattedPlate(text) ==
  IF variant = "cdn"
  THEN IF validateIndianPlateCdn(Trim(text)) # NoMatch
       THEN validateIndianPlateCdn(Trim(text)) ELSE Trim(text)
  ELSE validateIndianPlatePkg(text)

\* A scan that takes blank text for a result: performTesseractOCR and
\* scanNumberPlate without their checks for empty text.
RecognizedKeepingBlank(k, text) ==
  /\ variant # "scanner"
  /\ k \in 1..Len(scans) /\ scans[k].stage = "recognize"
  /\ scans' = Returned(scans, k)
  /\ IF ~mounted
     THEN UNCHANGED <<error, videoSrc, isScanning, capturedPhotos, extractedText,
                      showScanResult>>
     ELSE IF formattedPlate(text) = NoMatch
          THEN /\ error' = "Invalid number plate format"
               /\ videoSrc' = 0
               /\ extractedText' = <<>>
               /\ isScanning' = FALSE
               /\ UNCHANGED <<capturedPhotos, showScanResult>>
          ELSE /\ extractedText' = formattedPlate(text)
               /\ capturedPhotos' =
                    WriteResult(capturedPhotos, scans[k].index, formattedPlate(text))
               /\ showScanResult' = TRUE
               /\ isScanning' = FALSE
               /\ UNCHANGED <<error, videoSrc>>
  /\ UNCHANGED <<variant, textVars, mounted, tesseract, isStreaming, cameraFacing, streamRef, req,
                 selectedPhotoIndex, showGallery, showFullscreen, isCapturing, now, timers,
                 frames, scannerVars>>

\* A scanNumberPlate whose `return` on a text without a plate skips
\* setIsScanning(false).
RecognizedReturningEarly(k, text) ==
  /\ variant # "scanner"
  /\ k \in 1..Len(scans) /\ scans[k].stage = "recognize"
  /\ scans' = Returned(scans, k)
  /\ IF formattedPlate(text) = NoMatch \/ Trim(text) = <<>>
     THEN /\ error' = "Invalid number plate format"
          /\ videoSrc' = 0
          /\ extractedText' = <<>>
          /\ UNCHANGED <<isScanning, capturedPhotos, showScanResult>>
     ELSE /\ extractedText' = formattedPlate(text)
          /\ capturedPhotos' =
               WriteResult(capturedPhotos, scans[k].index, formattedPlate(text))
          /\ showScanResult' = TRUE
          /\ isScanning' = FALSE
          /\ UNCHANGED <<error, videoSrc>>
  /\ UNCHANGED <<variant, textVars, mounted, tesseract, isStreaming, cameraFacing, streamRef, req,
                 selectedPhotoIndex, showGallery, showFullscreen, isCapturing, now, timers, frames,
                 scannerVars>>

\* Tesseract.recognize resolves with text
Recognized(k, text) ==
  /\ variant # "scanner"
  /\ k \in 1..Len(scans) /\ scans[k].stage = "recognize"
  /\ IF variant = "cdn" /\ Trim(text) = <<>>
     THEN ScanFails(k)
     ELSE /\ scans' = Returned(scans, k)
          /\ IF ~mounted
             THEN UNCHANGED <<error, videoSrc, isScanning, capturedPhotos, extractedText,
                              showScanResult>>
             ELSE IF formattedPlate(text) = NoMatch
                  THEN /\ error' = "Invalid number plate format"
                       /\ videoSrc' = 0
                       /\ extractedText' = <<>>
                       /\ isScanning' = FALSE
                       /\ UNCHANGED <<capturedPhotos, showScanResult>>
                  ELSE /\ extractedText' = formattedPlate(text)
                       /\ capturedPhotos' =
                            WriteResult(capturedPhotos, scans[k].index, formattedPlate(text))
                       /\ showScanResult' = TRUE
                       /\ isScanning' = FALSE
                       /\ UNCHANGED <<error, videoSrc>>
  /\ UNCHANGED <<variant, textVars, mounted, tesseract, isStreaming, cameraFacing, streamRef, req,
                 selectedPhotoIndex, showGallery, showFullscreen, isCapturing, now, timers, frames,
                 scannerVars>>

\* Tesseract.recognize rejects
RecognizeThrows(k) ==
  /\ variant # "scanner"
  /\ k \in 1..Len(scans) /\ scans[k].stage = "recognize"
  /\ ScanFails(k)
  /\ UNCHANGED <<variant, textVars, mounted, tesseract, isStreaming, cameraFacing, streamRef, req,
                 selectedPhotoIndex, showGallery, showFullscreen, isCapturing, now, timers, frames,
                 scannerVars>>

\* ------------------------------------------------- IndianPlateScanner
\* the image files the user may pick
Images == {1, 2}

\* initTesseract settles
ScannerTesseractLoad(ok) ==
  /\ variant = "scanner"
  /\ tesseract = "loading"
  /\ tesseract' = IF ok THEN "loaded" ELSE "failed"
  /\ error' = IF ok THEN error ELSE "Failed to load OCR engine"
  /\ UNCHANGED <<variant, textVars, mounted, cameraVars, galleryVars, scanVars, scannerVars>>

\* startCamera up to its await ("Open Camera", shown while the camera is closed)
ScannerStartCamera ==
  /\ variant = "scanner"
  /\ ~isCameraOpen /\ ~isProcessing /\ tesseractLoaded
  /\ Len(req) < ScannerOpens
  /\ error' = ""
  /\ req' = Append(req, [facing |-> "environment", origin |-> "click",
                         idle |-> ~isCameraOpen, status |-> "pending"])
  /\ UNCHANGED <<variant, textVars, mounted, tesseract, isStreaming, cameraFacing, streamRef,
                 videoSrc, galleryVars, scanVars, scannerVars>>

\* getUserMedia resolves.  The <video> element is rendered only while
\* isCameraOpen, so videoRef.current is null while the camera is closed.
ScannerGranted(i) ==
  /\ variant = "scanner"
  /\ i \in Pending(req)
  /\ req' = [req EXCEPT ![i].status = "live"]
  /\ IF isCameraOpen
     THEN /\ videoSrc' = i
          /\ isCameraOpen' = TRUE
     ELSE UNCHANGED <<videoSrc, isCameraOpen>>
  /\ UNCHANGED <<variant, textVars, mounted, error, tesseract, isStreaming, cameraFacing, streamRef,
                 galleryVars, scanVars, capturedImage, isProcessing, workerRef, workers,
                 readers>>

\* getUserMedia rejects
ScannerDenied(i) ==
  /\ variant = "scanner"
  /\ i \in Pending(req)
  /\ req' = [req EXCEPT ![i].status = "denied"]
  /\ error' = "Camera access denied"
  /\ UNCHANGED <<variant, textVars, mounted, tesseract, isStreaming, cameraFacing, streamRef,
                 videoSrc, galleryVars, scanVars, scannerVars>>

\* stopCamera of IndianPlateScanner, as a function of [videoSrc, isCameraOpen, req].
\* Its button and capturePhoto, its only callers, exist only while isCameraOpen.
ScannerStopCamera(s) ==
  [videoSrc |-> 0, isCameraOpen |-> FALSE, req |-> StopTracks(s.req, s.videoSrc)]

\* processImage up to its first await
ProcessImageCall(ss, image) ==
  Append(ss, [image |-> image, index |-> 0, stage |-> "preprocess", input |-> "none",
              worker |-> 0, discarded |-> FALSE])

\* handleFileUpload ("Upload Image", disabled while isProcessing)
HandleFileUpload(image, valid) ==
  /\ variant = "scanner"
  /\ ~isCameraOpen /\ ~isProcessing /\ tesseractLoaded
  /\ Len(readers) < MaxReaders
  /\ IF valid
     THEN /\ error' = ""
          /\ readers' = Append(readers, image)
     ELSE /\ error' = "Please select a valid image file"
          /\ UNCHANGED readers
  /\ UNCHANGED <<variant, textVars, mounted, tesseract, cameraVars, galleryVars, scanVars,
                 capturedImage, isCameraOpen, isProcessing, workerRef, workers>>

\* reader.onload: the image is shown and processed at once
ReaderLoaded ==
  /\ variant = "scanner"
  /\ readers # <<>>
  /\ Len(scans) < MaxScans
  /\ readers' = Tail(readers)
  /\ capturedImage' = Head(readers)
  /\ isProcessing' = TRUE
  /\ error' = ""
  /\ extractedText' = <<>>
  /\ scans' = ProcessImageCall(scans, Head(readers))
  /\ UNCHANGED <<variant, textVars, mounted, tesseract, cameraVars, galleryVars, isScanning,
                 showScanResult, isCameraOpen, workerRef, workers>>

\* "Re-scan" (shown with a captured image while not processing)
Rescan ==
  /\ variant = "scanner"
  /\ capturedImage # 0 /\ ~isProcessing /\ tesseractLoaded
  /\ Len(scans) < MaxScans
  /\ isProcessing' = TRUE
  /\ error' = ""
  /\ extractedText' = <<>>
  /\ scans' = ProcessImageCall(scans, capturedImage)
  /\ UNCHANGED <<variant, textVars, mounted, tesseract, cameraVars, galleryVars, isScanning,
                 showScanResult, capturedImage, isCameraOpen, workerRef, workers, readers>>

\* resetScanner ("Scan Another")
ResetScanner ==
  /\ variant = "scanner"
  /\ capturedImage # 0 \/ extractedText # <<>>
  /\ capturedImage' = 0
  /\ extractedText' = <<>>
  /\ error' = ""
  /\ isProcessing' = FALSE
  /\ scans' = Discard(scans, Images)
  /\ UNCHANGED <<variant, textVars, mounted, tesseract, cameraVars, galleryVars, isScanning,
                 showScanResult, isCameraOpen, workerRef, workers, readers>>

\* what preprocessImage resolves with: the enhanced image, or the original one
\* when the image does not load or the canvas gives no 2d context
preprocessImage(processed) == IF processed THEN "preprocessed" ELSE "raw"

\* preprocessImage resolves (it never rejects); then "Create worker once"
Preprocessed(k, processed) ==
  /\ variant = "scanner"
  /\ k \in 1..Len(scans) /\ scans[k].stage = "preprocess"
  /\ IF workerRef = 0
     THEN /\ workers < MaxWorkers
          /\ workers' = workers + 1
          /\ scans' = [scans EXCEPT ![k].stage = "createWorker", ![k].worker = workers + 1,
                                    ![k].input = preprocessImage(processed)]
     ELSE /\ scans' = [scans EXCEPT ![k].stage = "recognize", ![k].worker = workerRef,
                                    ![k].input = preprocessImage(processed)]
          /\ UNCHANGED workers
  /\ UNCHANGED <<variant, textVars, mounted, error, tesseract, cameraVars, galleryVars, isScanning,
                 extractedText, showScanResult, capturedImage, isCameraOpen, isProcessing,
                 workerRef, readers>>

\* the catch and finally blocks of processImage
ProcessFails(k) ==
  /\ scans' = Returned(scans, k)
  /\ error' = "Failed to process image"
  /\ isProcessing' = FALSE
  /\ UNCHANGED extractedText

\* createWorker('eng') resolves or rejects
WorkerCreated(k, ok) ==
  /\ variant = "scanner"
  /\ k \in 1..Len(scans) /\ scans[k].stage = "createWorker"
  /\ IF ok
     THEN /\ workerRef' = scans[k].worker
          /\ scans' = [scans EXCEPT ![k].stage = "setParameters"]
          /\ UNCHANGED <<error, isProcessing, extractedText>>
     ELSE /\ ProcessFails(k)
          /\ UNCHANGED workerRef
  /\ UNCHANGED <<variant, textVars, mounted, tesseract, cameraVars, galleryVars, isScanning,
                 showScanResult, capturedImage, isCameraOpen, workers, readers>>

\* setParameters resolves; recognize is called on workerRef.current
ParametersSet(k) ==
  /\ variant = "scanner"
  /\ k \in 1..Len(scans) /\ scans[k].stage = "setParameters"
  /\ scans' = [scans EXCEPT ![k].stage = "recognize", ![k].worker = workerRef]
  /\ UNCHANGED <<variant, textVars, mounted, error, tesseract, cameraVars, galleryVars, isScanning,
                 extractedText, showScanResult, scannerVars>>

\* recognize resolves with result.data.text
ScannerRecognized(k, text) ==
  /\ variant = "scanner"
  /\ k \in 1..Len(scans) /\ scans[k].stage = "recognize"
  /\ scans' = Returned(scans, k)
  /\ LET cleanedText == formatIndianPlate(cleanedSpaced(text))
     IN IF cleanedText # NoMatch
        THEN /\ extractedText' = cleanedText
             /\ UNCHANGED error
        ELSE /\ error' = "Could not extract valid plate number"
             /\ UNCHANGED extractedText
  /\ isProcessing' = FALSE
  /\ UNCHANGED <<variant, textVars, mounted, tesseract, cameraVars, galleryVars, isScanning,
                 showScanResult, capturedImage, isCameraOpen, workerRef, workers, readers>>

\* recognize rejects
ScannerRecognizeThrows(k) ==
  /\ variant = "scanner"
  /\ k \in 1..Len(scans) /\ scans[k].stage = "recognize"
  /\ ProcessFails(k)
  /\ UNCHANGED <<variant, textVars, mounted, tesseract, cameraVars, galleryVars, isScanning,
                 showScanResult, capturedImage, isCameraOpen, workerRef, workers, readers>>

\* ------------------------------------------ the normalizers and formatters
IND == <<"I", "N", "D">>

\* the characters of the short texts: a lower-case and an upper-case confusable
\* letter, a letter only the strict normalizer replaces, white space, a
\* character no normalizer keeps, a digit
Sigma == {"o", "I", "s", " ", "\n", "-", "7"}

\* every text of at most MaxLen characters of Sigma
ShortTexts == UNION {[1..n -> Sigma] : n \in 0..MaxLen}

\* what an OCR engine reads off a plate: an optional IND, a state code, a
\* district, a series (none on legacy plates) and a serial, run together or
\* separated, digits possibly read as the letters they look like
PlateTexts ==
  { pre \o st \o sep \o di \o sep \o se \o sep \o nr :
      pre \in {<<>>, IND},
      st \in {<<"H", "R">>, <<"r", "j">>, <<"O", "D">>},
      sep \in {<<>>, <<" ">>, <<"-">>, <<" ", "-", " ">>},
      di \in {<<"2", "6">>, <<"1">>, <<"2", "O">>},
      se \in {<<>>, <<"A">>, <<"A", "B">>},
      nr \in {<<"1", "2", "3", "4">>, <<"1", "2", "3">>, <<"1", "Z", "3", "S">>,
              <<"0", "0", "5", "5", "5", "1">>} }

\* the texts the comments of the sources name, and texts for the patterns that
\* PlateTexts does not reach
NamedTexts ==
  { <<"A", "B", "C", "1", "2", "3", "4">>,
    <<"H", "R", "2", "6", "A", "B", "C", "D">>,
    <<"H", "R", "2", "6", "A", "B", "C", "1", "2", "3">>,
    <<"Z", "Z", "Z", "Z", "Z", "Z", "Z", "Z">>,
    IND \o <<"R", "J", "1", "4", "C", "V", "0", "0", "0", "2">>,
    IND \o <<"H", "R", "2", "6", "0", "0", "5", "5", "5", "1">> }

Texts == ShortTexts \cup PlateTexts \cup NamedTexts

\* `cleaned` of validateIndianPlate is computed
NormalizeStrict ==
  /\ variant \in {"cdn", "pkg"} /\ cleaned = Unset
  /\ cleaned' = cleanedStrict(rawText)
  /\ UNCHANGED <<variant, mounted, error, tesseract, cameraVars, galleryVars, scanVars,
                 scannerVars, rawText, plate>>

\* `text` of processImage is computed from the text of the OCR result
NormalizeSpaced ==
  /\ variant = "scanner" /\ cleaned = Unset
  /\ cleaned' = cleanedSpaced(rawText)
  /\ UNCHANGED <<variant, mounted, error, tesseract, cameraVars, galleryVars, scanVars,
                 scannerVars, rawText, plate>>

\* validateIndianPlate(rawText) returns
CallValidateIndianPlate ==
  /\ variant \in {"cdn", "pkg"} /\ cleaned # Unset /\ plate = Unset
  /\ plate' = IF variant = "cdn" THEN validateIndianPlateCdn(rawText)
              ELSE validateIndianPlatePkg(rawText)
  /\ UNCHANGED <<variant, mounted, error, tesseract, cameraVars, galleryVars, scanVars,
                 scannerVars, rawText, cleaned>>

\* formatIndianPlate(text) returns, called by processImage with its `text`
CallFormatIndianPlate ==
  /\ variant = "scanner" /\ cleaned # Unset /\ plate = Unset
  /\ plate' = formatIndianPlate(cleaned)
  /\ UNCHANGED <<variant, mounted, error, tesseract, cameraVars, galleryVars, scanVars,
                 scannerVars, rawText, cleaned>>

InitComponent ==
  /\ mounted = TRUE
  /\ isStreaming = FALSE /\ error = "" /\ cameraFacing = "environment"
  /\ isCapturing = FALSE /\ streamRef = 0 /\ videoSrc = 0 /\ req = <<>>
  /\ capturedPhotos = <<>> /\ selectedPhotoIndex = 0
  /\ showGallery = FALSE /\ showFullscreen = FALSE
  /\ isScanning = FALSE /\ extractedText = <<>> /\ showScanResult = FALSE
  /\ tesseract = IF variant = "pkg" THEN "loaded" ELSE "loading"
  /\ scans = <<>> /\ now = 1 /\ timers = 0 /\ frames = 0
  /\ capturedImage = 0 /\ isCameraOpen = FALSE /\ isProcessing = FALSE
  /\ workerRef = 0 /\ workers = 0 /\ readers = <<>>

\* a mounted component; no formatter has been called
InitSession == InitComponent /\ rawText = <<>> /\ cleaned = Unset /\ plate = Unset

InitModern == variant \in {"cdn", "pkg"} /\ InitSession

InitScanner == variant = "scanner" /\ InitSession

NextGallery ==
  \/ StartCamera(OpensToStream)
  \/ \E i \in 1..OpensToStream : GetUserMediaGranted(i, OpensToStream)
  \/ \E ctx \in BOOLEAN : CapturePhoto(ctx, MaxCaptures)
  \/ CaptureTimeout
  \/ OpenGallery
  \/ CloseGallery
  \/ \E index \in 0..MaxCaptures : OpenFullscreen(index)
  \/ CloseFullscreen
  \/ PreviousPhoto
  \/ NextPhoto
  \/ DeletePhoto
  \/ CloseScanResult
  \/ \E ok \in BOOLEAN : TesseractLoad(ok)
  \/ ScanNumberPlate
  \/ \E k \in 1..MaxScans, ok \in BOOLEAN : ImageLoaded(k, ok)
  \/ \E k \in 1..MaxScans, text \in OcrTexts : Recognized(k, text)
  \/ \E k \in 1..MaxScans : RecognizeThrows(k)

SpecGallery == InitModern /\ [][NextGallery]_vars

\* ModernCameraApp with the scan left out: the camera is opened, photos are
\* taken, browsed and deleted
NextPhotos ==
  \/ StartCamera(OpensToStream)
  \/ \E i \in 1..OpensToStream : GetUserMediaGranted(i, OpensToStream)
  \/ \E ok \in BOOLEAN : TesseractLoad(ok)
  \/ \E ctx \in BOOLEAN : CapturePhoto(ctx, MaxShots)
  \/ CaptureTimeout
  \/ OpenGallery
  \/ CloseGallery
  \/ \E index \in 0..MaxShots : OpenFullscreen(index)
  \/ CloseFullscreen
  \/ PreviousPhoto
  \/ NextPhoto
  \/ DeletePhoto

SpecPhotos == InitModern /\ [][NextPhotos]_vars

\* ModernCameraApp with the gallery left out: the camera is opened, photos are
\* taken and the newest one is scanned from the main screen
NextScan ==
  \/ StartCamera(OpensToStream)
  \/ \E i \in 1..OpensToStream : GetUserMediaGranted(i, OpensToStream)
  \/ \E ok \in BOOLEAN : TesseractLoad(ok)
  \/ \E ctx \in BOOLEAN : CapturePhoto(ctx, MaxCaptures)
  \/ CaptureTimeout
  \/ CloseScanResult
  \/ ScanNumberPlate
  \/ \E k \in 1..MaxScans, ok \in BOOLEAN : ImageLoaded(k, ok)
  \/ \E k \in 1..MaxScans, text \in OcrTexts : Recognized(k, text)
  \/ \E k \in 1..MaxScans : RecognizeThrows(k)

SpecScan == InitModern /\ [][NextScan]_vars

\* the browser settles the decoding of an image (onload or onerror)
ImageSettles == \E k \in 1..MaxScans, ok \in BOOLEAN : ImageLoaded(k, ok)

\* the OCR engine settles a recognize: it answers with a text or rejects
EngineAnswers ==
  \E k \in 1..MaxScans :
    RecognizeThrows(k) \/ \E text \in OcrTexts : Recognized(k, text)

\* SpecScan with a browser that settles every image and an OCR engine that
\* settles every recognize
SpecScanFair == SpecScan /\ WF_vars(ImageSettles) /\ WF_vars(EngineAnswers)

\* ModernCameraApp, the life of the photo sequence: photos are taken, scanned
\* from the main screen or the fullscreen viewer, and deleted
NextAlbum ==
  \/ StartCamera(OpensToStream)
  \/ \E i \in 1..OpensToStream : GetUserMediaGranted(i, OpensToStream)
  \/ \E ok \in BOOLEAN : TesseractLoad(ok)
  \/ \E ctx \in BOOLEAN : CapturePhoto(ctx, MaxShots)
  \/ CaptureTimeout
  \/ OpenGallery
  \/ \E index \in 0..MaxShots : OpenFullscreen(index)
  \/ DeletePhoto
  \/ ScanNumberPlate
  \/ \E k \in 1..MaxScans, ok \in BOOLEAN : ImageLoaded(k, ok)
  \/ \E k \in 1..MaxScans, text \in OcrTexts : Recognized(k, text)
  \/ \E k \in 1..MaxScans : RecognizeThrows(k)

SpecAlbum == InitModern /\ [][NextAlbum]_vars

\* ModernCameraApp, the shutter alone: the camera is opened and photos are taken
NextCapture ==
  \/ StartCamera(OpensToStream)
  \/ \E i \in 1..OpensToStream : GetUserMediaGranted(i, OpensToStream)
  \/ \E ok \in BOOLEAN : TesseractLoad(ok)
  \/ \E ctx \in BOOLEAN : CapturePhoto(ctx, MaxFrames)
  \/ CaptureTimeout

SpecCapture == InitModern /\ [][NextCapture]_vars

NextCamera ==
  \/ StartCamera(MaxOpens)
  \/ \E i \in 1..MaxOpens : GetUserMediaGranted(i, MaxOpens)
  \/ \E i \in 1..MaxOpens : GetUserMediaDenied(i)
  \/ SwitchCamera
  \/ StopCamera
  \/ Unmount

SpecCamera == InitModern /\ [][NextCamera]_vars

NextScanner ==
  \/ \E ok \in BOOLEAN : ScannerTesseractLoad(ok)
  \/ ScannerStartCamera
  \/ \E i \in 1..ScannerOpens : ScannerGranted(i)
  \/ \E i \in 1..ScannerOpens : ScannerDenied(i)
  \/ \E image \in Images, valid \in BOOLEAN : HandleFileUpload(image, valid)
  \/ ReaderLoaded
  \/ Rescan
  \/ ResetScanner
  \/ \E k \in 1..MaxScans, processed \in BOOLEAN : Preprocessed(k, processed)
  \/ \E k \in 1..MaxScans, ok \in BOOLEAN : WorkerCreated(k, ok)
  \/ \E k \in 1..MaxScans : ParametersSet(k)
  \/ \E k \in 1..MaxScans, text \in OcrTexts : ScannerRecognized(k, text)
  \/ \E k \in 1..MaxScans : ScannerRecognizeThrows(k)

SpecScanner == InitScanner /\ [][NextScanner]_vars

\* a formatter of one of the three components is called with a text
InitText ==
  /\ variant \in {"cdn", "pkg", "scanner"}
  /\ InitComponent
  /\ rawText \in Texts /\ cleaned = Unset /\ plate = Unset

NextText ==
  \/ NormalizeStrict
  \/ NormalizeSpaced
  \/ CallValidateIndianPlate
  \/ CallFormatIndianPlate

SpecText == InitText /\ [][NextText]_vars
\* ------------------------------------------------------------------ claims
\* a getUserMedia call settles in this step
Grants(i) == i \in Pending(req) /\ i \in Live(req') \cup Released(req')
Denies(i) == i \in Pending(req) /\ req'[i].status = "denied"

\* C1: in ModernCameraApp at most one acquired media stream has live tracks in
\* every reachable state, under any interleaving of startCamera, stopCamera
\* and switchCamera.
C1_AtMostOneLiveStream == Cardinality(Live(req)) <= 1

\* C2: the OCR engine's recognize is never running twice at the same time.
C2_OneRecognizeAtATime == Cardinality(Recognizing(scans)) <= 1

\* a scan of ModernCameraApp returns in this step (at most one is pending)
ScanReturns == variant # "scanner" /\ Len(scans) = 1 /\ scans' = <<>>

\* C3: when scanNumberPlate completes, no photo other than the one whose image
\* was sent to the OCR engine has its extractedText changed.
C3_ResultOnScannedPhoto ==
  [][ScanReturns =>
       \A j \in 1..Len(capturedPhotos) :
         capturedPhotos'[j].extractedText # capturedPhotos[j].extractedText
           => capturedPhotos[j].dataUrl = scans[1].image]_vars

\* C4: a scan that was pending when the session was reset or its photo was
\* deleted changes nothing when it completes: text, error, busy flag and
\* photos stay as the reset or the delete left them.
C4_DiscardedScanIsInert ==
  [][\A k \in 1..Len(scans) :
       scans[k].discarded /\ scans' = Returned(scans, k)
         => UNCHANGED <<extractedText, error, isProcessing, isScanning,
                        capturedPhotos, capturedImage, showScanResult>>]_vars

\* C5: the OCR worker is initialized at most once: createWorker is never
\* called while a worker exists or is being created, and every recognize runs
\* on the one worker of workerRef.
C5_WorkerCreatedOnce ==
  /\ Cardinality({k \in 1..Len(scans) : scans[k].stage = "createWorker"})
       + (IF workerRef # 0 THEN 1 ELSE 0) <= 1
  /\ \A k \in Recognizing(scans) : scans[k].worker = workerRef

\* C6: whenever getUserMedia grants a stream to a startCamera issued from Idle,
\* the session is Streaming afterwards with that stream bound as its frame
\* source (IndianPlateScanner: isCameraOpen and the stream on the video element).
C6_GrantedOpenStreams ==
  [][\A i \in 1..Len(req) :
       variant = "scanner" /\ Grants(i) /\ req[i].idle
         => isCameraOpen' /\ videoSrc' = i]_vars

\* C7: when getUserMedia fails, the session is left in Error (error recorded,
\* not streaming) holding no live stream.
C7_FailedOpenHoldsNoStream ==
  [][\A i \in 1..Len(req) :
       mounted /\ Denies(i)
         => /\ error' # ""
            /\ ~isStreaming'
            /\ streamRef' \notin Live(req')]_vars

\* C8: once the re-open triggered by switchCamera has been granted and no
\* getUserMedia call is pending, exactly one stream is active: acquisitions
\* minus releases is one.
C8_OneStreamAfterSwitch ==
  [][\A i \in 1..Len(req) :
       mounted /\ Grants(i) /\ req[i].origin = "switch" /\ Pending(req') = {}
         => Cardinality(Acquired(req')) - Cardinality(Released(req')) = 1]_vars

\* C9 as stated: when the re-open triggered by switchCamera fails, the facing
\* mode in effect before the switch is the one remembered.
C9_PreviousFacingRemembered ==
  [][\A i \in 1..Len(req) :
       mounted /\ Denies(i) /\ req[i].origin = "switch" /\ i = Len(req)
         => error' # "" /\ cameraFacing' = OtherFacing(req[i].facing)]_vars

\* C9 amended: when the re-open triggered by switchCamera fails, the session
\* enters Error (error recorded, not streaming), the facing mode stays the one
\* the switch selected, and every later startCamera (the retry) asks for the
\* facing mode current at that time.
C9_SwitchedFacingKept ==
  [][/\ \A i \in 1..Len(req) :
          mounted /\ Denies(i) /\ req[i].origin = "switch"
            => /\ error' # "" /\ ~isStreaming'
               /\ cameraFacing' = cameraFacing
               /\ i = Len(req) => cameraFacing' = req[i].facing
     /\ Len(req') > Len(req) => req'[Len(req')].facing = cameraFacing']_vars

C9_Witness ==
  \E i \in 1..Len(req) :
    /\ i < Len(req)
    /\ req[i].origin = "switch" /\ req[i].status = "denied"
    /\ req[i + 1].origin = "click" /\ req[i + 1].facing = req[i].facing
    /\ cameraFacing = "user" /\ error = ""

\* C10: stopCamera releases the held stream and leaves the session Idle with
\* no stream reference; invoked when already Idle it changes nothing, and a
\* second stopCamera changes nothing after the first.
C10_CloseIdempotent ==
  [][StopCamera \/ Unmount =>
       /\ streamRef' = 0 /\ ~isStreaming'
       /\ Live(req') = Live(req) \ {streamRef}
       /\ (streamRef = 0 /\ ~isStreaming) => Session' = Session
       /\ stopCamera(Session') = Session']_vars

C10_Witness ==
  /\ ~mounted /\ streamRef = 0 /\ ~isStreaming
  /\ \E i \in 1..Len(req) : req[i].origin = "switch" /\ req[i].status = "stopped"
  /\ Live(req) = {}

\* C11: capturePhoto invoked while the session is not Streaming (isStreaming
\* false, or the error view shown) returns at once: no photo is appended and
\* nothing it owns changes.
C11_RejectedWhenNotStreaming ==
  (~isStreaming \/ error # "")
    => \A ctx \in BOOLEAN : capturePhoto(Shutter, ctx) = Shutter

\* the capture button is live and bound to capturePhoto while the error view
\* is shown and photos exist
C11_Witness ==
  /\ mounted /\ Screen = "main" /\ isStreaming /\ ~isCapturing
  /\ error # "" /\ capturedPhotos # <<>>

\* the capacity of the photo collection named by the design ("some variants
\* cap at 4"); capturePhoto itself reads no capacity
PhotoCapacity == 4

\* C12: the number of photos in the collection never exceeds the capacity
\* bound; a capture attempted at capacity appends nothing.
C12_CapacityNeverExceeded == Len(capturedPhotos) <= PhotoCapacity

\* C13: Capturing is transient: whenever capturePhoto has disabled capture
\* (isCapturing), the callback that re-enables it is pending, so that the
\* session is Streaming with capture enabled again afterwards.
C13_CapturingIsLeft == isCapturing => timers > 0

\* C14: any two photos of the collection have different ids, whatever the
\* clock read when they were taken, so that deletePhoto(id) removes one photo.
C14_PhotoIdsUnique ==
  \A i, j \in 1..Len(capturedPhotos) :
    i # j => capturedPhotos[i].id # capturedPhotos[j].id

\* C15: in every reachable state of ModernCameraApp the selection cursor is a
\* valid index while photos exist, and no photo is shown as selected while
\* the collection is empty.
C15_CursorValid ==
  IF capturedPhotos = <<>>
  THEN ~showFullscreen
  ELSE selectedPhotoIndex \in 0..(Len(capturedPhotos) - 1)

\* C16: resetScanner, from any state, clears the captured image and the scan
\* result and leaves the session Idle with no live stream.
C16_ResetReleasesStream ==
  [][ResetScanner =>
       /\ capturedImage' = 0 /\ extractedText' = <<>>
       /\ ~isCameraOpen'
       /\ Live(req') = {}]_vars

\* C17: when the OCR engine throws or answers empty or whitespace-only text,
\* the scan ends with an error and the photo collection is as it was: no photo
\* added, removed, reordered or given a text.
C17_FailedScanKeepsPhotos ==
  [][\A k \in 1..Len(scans) :
       /\ mounted
       /\ \/ RecognizeThrows(k)
          \/ \E text \in OcrTexts : Trim(text) = <<>> /\ Recognized(k, text)
       => /\ error' # ""
          /\ ~isScanning'
          /\ capturedPhotos' = capturedPhotos]_vars

\* a scan of the "pkg" variant has ended in its own error, with the photos unscanned
C17_Witness ==
  /\ variant = "pkg" /\ error = "Invalid number plate format"
  /\ scans = <<>> /\ ~isScanning
  /\ capturedPhotos # <<>>
  /\ \A j \in 1..Len(capturedPhotos) : capturedPhotos[j].extractedText = Absent

\* the recognized text matches no plate pattern of the variant
Unmatched(text) ==
  IF variant = "cdn" THEN validateIndianPlateCdn(Trim(text)) = NoMatch
  ELSE validateIndianPlatePkg(text) = NoMatch

\* C18: when the OCR engine answers non-empty text that matches no plate
\* pattern, the scan still gives a result: no error, and the text reduced to
\* its characters of [A-Z0-9] is shown and stored on a photo.
C18_UnmatchedTextIsKept ==
  [][\A k \in 1..Len(scans) : \A text \in OcrTexts :
       mounted /\ Trim(text) # <<>> /\ Unmatched(text) /\ Recognized(k, text)
       => /\ error' = ""
          /\ showScanResult'
          /\ extractedText' = Keep(UpperText(text), Upper \cup Digit)
          /\ \E j \in 1..Len(capturedPhotos') :
               capturedPhotos'[j].extractedText = extractedText']_vars

\* C19: in every scan the OCR engine's recognize runs on the preprocessed
\* image of the photo, never on the raw one.
C19_RecognizeGetsPreprocessed ==
  \A k \in Recognizing(scans) : scans[k].input = "preprocessed"

\* the engine of the "cdn" variant is not there: its script is still loading
\* or has failed to load
EngineMissing == variant = "cdn" /\ tesseract # "loaded"

StepWithoutEngine ==
  \/ StartCamera(OpensToStream)
  \/ \E i \in 1..OpensToStream : GetUserMediaGranted(i, OpensToStream)
  \/ \E ok \in BOOLEAN : TesseractLoad(ok)
  \/ \E ctx \in BOOLEAN : CapturePhoto(ctx, MaxCaptures)
  \/ CaptureTimeout
  \/ CloseScanResult
  \/ ScanNumberPlate
  \/ \E k \in 1..MaxScans, ok \in BOOLEAN : ImageLoaded(k, ok)

\* C21: a scan is bounded by a timeout: while recognize is pending and the
\* busy flag is set, a step that is not the engine's answer can clear the busy
\* flag, so the scan does not wait for the engine forever.
C21_ScanCanEndWithoutEngine ==
  (isScanning /\ Recognizing(scans) # {})
    => ENABLED (StepWithoutEngine /\ ~isScanning')

\* the standard form of a plate: state, district, series, serial
StandardForm ==
  Expand(<< <<Upper, 2, 2, TRUE>>, <<Digit, 2, 2, TRUE>>,
            <<Upper, 1, 2, TRUE>>, <<Digit, 4, 4, TRUE>> >>)

\* the normalized text without its spaces: what the patterns are tried on
Compact == RemoveSpaces(cleaned)

\* C22: for a normalized text of the standard form (2 letters, 2 digits, 1-2
\* letters, 4 digits) the formatter of every variant returns the four segments
\* state, district, series, serial joined by single spaces.
C22_StandardPlateInFourSegments ==
  (plate # Unset /\ FirstShape(Compact, StandardForm) # 0)
    => plate = Join(Groups(Compact, StandardForm[FirstShape(Compact, StandardForm)]))

\* the legacy form of a plate: the state code and a number of six digits
LegacyForm == Expand(<< <<Upper, 2, 2, TRUE>>, <<Digit, 6, 6, TRUE>> >>)

\* C23: for a legacy-form text (2 letters followed only by digits, as
\* "HR261234") validateIndianPlate returns the old-format split: the state code
\* and the number, two segments separated by one space.
C23_LegacyPlateInTwoSegments ==
  (variant \in {"cdn", "pkg"} /\ plate # Unset /\ FirstShape(cleaned, LegacyForm) # 0)
    => plate = Join(Groups(cleaned, LegacyForm[1]))

\* the formatter has returned a plate
Matched == plate # Unset /\ plate # NoMatch

\* C24: whenever a formatter reports a match, its output is made of non-empty
\* segments separated by exactly one space (no leading, trailing or doubled
\* space), and without its spaces it is the normalized input, no character
\* added or dropped.
C24_SegmentsSingleSpaced ==
  Matched =>
    /\ plate # <<>> /\ plate[1] # " " /\ plate[Len(plate)] # " "
    /\ \A i \in 1..(Len(plate) - 1) : ~(plate[i] = " " /\ plate[i + 1] = " ")
    /\ RemoveSpaces(plate) = Compact

\* the ordered pattern list of the formatter of the variant
PatternList ==
  CASE variant = "cdn" -> platePatterns
    [] variant = "pkg" -> plateRegexList
    [] OTHER -> patterns

\* the segmentation a pattern defines: the pieces of s under its letter and
\* digit items (not the literal IND, not the optional spaces)
Pieces(s, shape) ==
  LET cut == CutShape(s, shape)
      RECURSIVE Sel(_)
      Sel(i) == IF i > Len(shape) THEN <<>>
                ELSE IF shape[i][1] \in {Upper, Digit} /\ cut[i] # <<>>
                     THEN <<cut[i]>> \o Sel(i + 1)
                     ELSE Sel(i + 1)
  IN Join(Sel(1))

\* pattern j matches the compact text and no pattern before it does
Earliest(j) ==
  /\ FirstShape(Compact, PatternList[j]) # 0
  /\ \A i \in 1..(j - 1) : FirstShape(Compact, PatternList[i]) = 0

\* C25: pattern evaluation is first-match-wins over the ordered list: the
\* result is the segmentation defined by the earliest pattern of the list that
\* matches, whatever later patterns would give, and NoMatch if none matches.
C25_FirstMatchWins ==
  (variant \in {"pkg", "scanner"} /\ plate # Unset) =>
    /\ (\A j \in 1..Len(PatternList) : ~Earliest(j)) => plate = NoMatch
    /\ \A j \in 1..Len(PatternList) :
         Earliest(j) =>
           plate = Pieces(Compact, PatternList[j][FirstShape(Compact, PatternList[j])])

\* the patterns of the list that begin with the country prefix IND
IndPatterns == IF variant = "pkg" THEN {2, 3, 5} ELSE {5}

\* C26: an IND country-prefixed plate text (as "INDRJ14CV0002",
\* "INDHR26005551") is recognized: the formatter returns a plate for it and not
\* NoMatch.
C26_IndPrefixedPlateRecognized ==
  ( /\ variant \in {"pkg", "scanner"} /\ plate # Unset
    /\ \E j \in IndPatterns : FirstShape(rawText, PatternList[j]) # 0 )
    => plate # NoMatch

\* the normalizer of the variant
Normalizer(text) ==
  IF variant = "scanner" THEN cleanedSpaced(text) ELSE cleanedStrict(text)

\* C27: the normalizer is idempotent in both variants, normalizing its output
\* gives that output again, so formatIndianPlate called on the text processImage
\* has already normalized returns what it returns for the text itself.
C27_NormalizerIdempotent ==
  /\ cleaned # Unset => Normalizer(cleaned) = cleaned
  /\ (variant = "scanner" /\ plate # Unset) => plate = formatIndianPlate(rawText)

\* a text with separators and lower-case letters was normalized to a text with
\* single spaces and then formatted
C27_Witness ==
  /\ variant = "scanner" /\ Matched
  /\ \E i \in 1..Len(rawText) : rawText[i] = "-"
  /\ \E i \in 1..Len(rawText) : rawText[i] = "r"
  /\ \E i \in 1..Len(cleaned) : cleaned[i] = " "

\* C28: the output of the strict normalizer has only characters of [A-Z0-9];
\* the output of the whitespace-preserving normalizer has only characters of
\* [A-Z0-9] and single spaces.
C28_NormalizedAlphabet ==
  cleaned # Unset =>
    IF variant = "scanner"
    THEN /\ \A i \in 1..Len(cleaned) : cleaned[i] \in Upper \cup Digit \cup {" "}
         /\ \A i \in 1..(Len(cleaned) - 1) : ~(cleaned[i] = " " /\ cleaned[i + 1] = " ")
    ELSE \A i \in 1..Len(cleaned) : cleaned[i] \in Upper \cup Digit

\* the strict normalizer was given white space, a character outside the
\* alphabet and a lower-case letter, and kept something
C28_Witness ==
  /\ variant = "cdn" /\ cleaned # Unset /\ cleaned # <<>>
  /\ \E i, j, k \in 1..Len(rawText) :
       rawText[i] \in Space /\ rawText[j] = "-" /\ rawText[k] = "s"

\* the letters the normalizer of the variant replaces by digits
Confusable == IF variant = "scanner" THEN {"O", "I"} ELSE {"O", "I", "Z", "S"}

C30_PreprocessingFailureYieldsImage ==
  [][\A k \in 1..MaxScans :
       ImageLoaded(k, FALSE)
         => /\ Len(scans') = Len(scans) /\ scans'[k].stage = "recognize"
            /\ error' = error]_vars

\* C31: the photo sequence is ordered by capture, most recent first, in every
\* reachable state: a capture puts the new photo at the front, a deletion and a
\* completed scan keep the order of the photos that remain.  (The dataUrl of a
\* photo is the serial number of its frame.)
C31_MostRecentFirst ==
  \A i, j \in 1..Len(capturedPhotos) :
    i < j => capturedPhotos[i].dataUrl > capturedPhotos[j].dataUrl

\* three photos were taken, the second one was deleted and a scan has written
\* its result on one of the two that remain
C31_Witness ==
  /\ Len(capturedPhotos) = 2
  /\ capturedPhotos[1].dataUrl = 3 /\ capturedPhotos[2].dataUrl = 1
  /\ \E i \in 1..2 : capturedPhotos[i].extractedText # Absent

\* C32: whenever the session reports Streaming (isStreaming, the video element
\* shown, capture enabled), the frame source of the video element is a stream
\* with live tracks, also while the re-open of a switchCamera is pending.
C32_StreamingHasLiveSource ==
  (mounted /\ variant # "scanner" /\ isStreaming /\ error = "")
    => videoSrc \in Live(req)

\* getUserMedia call i was made while the session was Streaming, the session
\* has been closed since (it is Idle with no stream reference) and no explicit
\* open was made after the call
ClosedSince(i) ==
  /\ ~req[i].idle /\ ~isStreaming /\ streamRef = 0
  /\ \A j \in (i + 1)..Len(req) : req[j].origin # "click"

\* C33: after close (stopCamera, or the cleanup at unmount) the session stays
\* Idle with no live stream until the next explicit open: the grant of an open
\* that was pending when close was called neither brings the session back to
\* Streaming nor leaves a live stream behind.
C33_ClosedStaysClosed ==
  [][\A i \in 1..Len(req) :
       (Grants(i) /\ (~mounted \/ ClosedSince(i)))
         => ~isStreaming' /\ Live(req') = {}]_vars

SelectedImage(photos, index) ==
  IF index < Len(photos) THEN photos[index + 1].dataUrl ELSE 0

\* C35: whenever the scan-result panel is shown, the displayed extractedText is
\* the result of scanning the currently selected photo: a step that shows the
\* panel completes a scan of the photo selected after it, and a step that keeps
\* the panel keeps the text and the selected photo, also when the user
\* navigates or deletes a photo while a scan is pending.
C35_PanelShowsSelectedPhoto ==
  [][(variant # "scanner" /\ showScanResult') =>
       \/ \E k \in 1..Len(scans) :
            /\ scans' = Returned(scans, k)
            /\ SelectedImage(capturedPhotos', selectedPhotoIndex') = scans[k].image
       \/ /\ showScanResult /\ extractedText' = extractedText
          /\ SelectedImage(capturedPhotos', selectedPhotoIndex')
               = SelectedImage(capturedPhotos, selectedPhotoIndex)]_vars

\* a scan of ModernCameraApp ends in an error in this step
ScanFailure ==
  variant # "scanner" /\ mounted /\ Len(scans') < Len(scans) /\ error' # ""

\* the user acknowledges the error: "Try Again" of the error view
TryAgain == variant # "scanner" /\ error # "" /\ StartCamera(OpensToStream)

\* C36: a scan failure does not disturb the capture session: the live stream
\* bound to the video element stays bound, and once the user has acknowledged
\* the error the session is Streaming with a live stream on the video element.
C36_ScanFailureKeepsSession ==
  [][/\ (ScanFailure /\ isStreaming /\ videoSrc \in Live(req))
          => isStreaming' /\ videoSrc' = videoSrc /\ videoSrc' \in Live(req')
     /\ (TryAgain /\ isStreaming) => isStreaming' /\ videoSrc' \in Live(req')]_vars

\* the getUserMedia calls made by a click of the user (not by an effect)
Clicks == {i \in 1..Len(req) : req[i].origin = "click"}

\* C37: a single user-initiated open from Idle acquires the video source
\* exactly once: when the session has settled in Streaming after one click and
\* no switch, one getUserMedia call has been made.
C37_OneAcquisitionPerOpen ==
  ( /\ variant # "scanner" /\ mounted /\ isStreaming /\ Pending(req) = {}
    /\ Cardinality(Clicks) = 1
    /\ \A i \in 1..Len(req) : req[i].origin # "switch" )
    => Len(req) = 1

\* positions i..j of a formatted plate lie in one space-separated segment
SameSegment(text, i, j) == \A k \in i..j : text[k] # " "

\* C38: every space-separated segment of a plate returned by
\* validateIndianPlate is made of letters only or of digits only, for every
\* input that matches a pattern.
C38_SegmentsUnmixed ==
  (variant \in {"cdn", "pkg"} /\ Matched) =>
    \A i, j \in 1..Len(plate) :
      (i < j /\ SameSegment(plate, i, j)) =>
        /\ plate[i] \in Upper \cup Digit
        /\ plate[j] \in Upper \cup Digit
        /\ (plate[i] \in Upper) = (plate[j] \in Upper)
====
